---- MODULE Spec2Model ----
(***************************************************************************)
(* Model of ga4_insights: the GA4 Explore CSV header reconciliation        *)
(* (parse_device_header_csv), the cleaning step (load_and_clean), the date *)
(* parser (_parse_dates_robust) and the script's main pipeline, as written *)
(* in analyse.py and analyse2.py.                                          *)
(*                                                                         *)
(* Text is modelled as a sequence of tokens.  A token is either one of the *)
(* characters the code treats specially (comma, double quote, '#', space,  *)
(* newline) or a word: an indivisible run of ordinary characters such as   *)
(* "Device category" or "mobile".  A line and a CSV cell are token         *)
(* sequences; a file is a sequence of lines (the result of splitlines()).  *)
(***************************************************************************)
EXTENDS Integers, Sequences, FiniteSets, TLC

VARIABLES script, fileExists, fileLines, pc, parsed, cleanColumns, error,
          exitStatus, written, stepsRun, series, dateVariant, dateResult,
          rawFrame, frameScript, frame, dedup, cleaned, movers

vars == <<script, fileExists, fileLines, pc, parsed, cleanColumns, error,
          exitStatus, written, stepsRun, series, dateVariant, dateResult,
          rawFrame, frameScript, frame, dedup, cleaned, movers>>

mainVars == <<script, fileExists, fileLines, pc, parsed, cleanColumns, error,
              exitStatus, written, stepsRun>>

dateVars == <<series, dateVariant, dateResult>>

frameVars == <<rawFrame, frameScript, frame, dedup>>

moversVars == <<cleaned, movers>>

-----------------------------------------------------------------------------
(* Tokens and Python string helpers                                        *)

COMMA == ","
QUOTE == "\""
HASH  == "#"
SPACE == " "
NL    == "\n"

\* str.strip(): whitespace tokens removed from both ends
RECURSIVE LStrip(_)
LStrip(s) == IF s # <<>> /\ Head(s) = SPACE THEN LStrip(Tail(s)) ELSE s

RECURSIVE RStrip(_)
RStrip(s) ==
    IF s # <<>> /\ s[Len(s)] = SPACE THEN RStrip(SubSeq(s, 1, Len(s) - 1)) ELSE s

Strip(s) == RStrip(LStrip(s))

\* str.lower() on one token: only the words of the model that hold capitals
LowerTok(t) ==
    CASE t = "Device category" -> "device category"
      [] t = "DEVICE CATEGORY" -> "device category"
      [] OTHER -> t

Lower(s) == [i \in 1..Len(s) |-> LowerTok(s[i])]

\* str.startswith(c) for a one-character prefix c
StartsWith(s, c) == s # <<>> /\ s[1] = c

\* list(reversed(xs))
Reversed(xs) == [i \in 1..Len(xs) |-> xs[Len(xs) + 1 - i]]

\* sep.join(parts) for a one-token separator
RECURSIVE Join(_, _)
Join(parts, sep) ==
    IF parts = <<>> THEN <<>>
    ELSE IF Len(parts) = 1 THEN parts[1]
    ELSE parts[1] \o <<sep>> \o Join(Tail(parts), sep)

\* text.split("\n"): the segments between newline tokens (always at least one)
RECURSIVE SplitNL(_, _, _)
SplitNL(text, cur, acc) ==
    IF text = <<>> THEN Append(acc, cur)
    ELSE IF Head(text) = NL THEN SplitNL(Tail(text), <<>>, Append(acc, cur))
    ELSE SplitNL(Tail(text), Append(cur, Head(text)), acc)

TextLines(text) == SplitNL(text, <<>>, <<>>)

-----------------------------------------------------------------------------
(* csv.reader on one line (default dialect: delimiter ',', quotechar '"',  *)
(* doublequote, not strict), as used for rows[0] and rows[1]               *)

RECURSIVE CsvScan(_, _, _, _)
CsvScan(rest, state, field, fields) ==
    IF rest = <<>> THEN
        \* end of line, then end of input
        IF state = "START_RECORD" THEN fields
        ELSE Append(fields, field)
    ELSE
        LET c == Head(rest)
            r == Tail(rest)
        IN  CASE state \in {"START_RECORD", "START_FIELD"} ->
                    IF c = QUOTE THEN CsvScan(r, "IN_QUOTED_FIELD", <<>>, fields)
                    ELSE IF c = COMMA THEN CsvScan(r, "START_FIELD", <<>>, Append(fields, <<>>))
                    ELSE CsvScan(r, "IN_FIELD", <<c>>, fields)
              [] state = "IN_FIELD" ->
                    IF c = COMMA THEN CsvScan(r, "START_FIELD", <<>>, Append(fields, field))
                    ELSE CsvScan(r, "IN_FIELD", Append(field, c), fields)
              [] state = "IN_QUOTED_FIELD" ->
                    IF c = QUOTE THEN CsvScan(r, "QUOTE_IN_QUOTED_FIELD", field, fields)
                    ELSE CsvScan(r, "IN_QUOTED_FIELD", Append(field, c), fields)
              [] state = "QUOTE_IN_QUOTED_FIELD" ->
                    IF c = QUOTE THEN CsvScan(r, "IN_QUOTED_FIELD", Append(field, c), fields)
                    ELSE IF c = COMMA THEN CsvScan(r, "START_FIELD", <<>>, Append(fields, field))
                    ELSE CsvScan(r, "IN_FIELD", Append(field, c), fields)

CsvReader(line) == CsvScan(line, "START_RECORD", <<>>, <<>>)

-----------------------------------------------------------------------------
(* parse_device_header_csv                                                 *)

\* only the comment lines that open the file are dropped
RECURSIVE _read_text_lines_m(_)
_read_text_lines_m(lines) ==
    IF lines # <<>> /\ StartsWith(Head(lines), HASH) THEN _read_text_lines_m(Tail(lines))
    ELSE lines

\* _read_text_lines: splitlines() of the file, '#' comment lines dropped
_read_text_lines(lines) == SelectSeq(lines, LAMBDA ln : ~StartsWith(ln, HASH))

\* while rows and not rows[0].strip(): rows.pop(0)
RECURSIVE DropLeadingBlanks(_)
DropLeadingBlanks(rows) ==
    IF rows # <<>> /\ Strip(Head(rows)) = <<>> THEN DropLeadingBlanks(Tail(rows))
    ELSE rows

\* device_row.index("Device category"): first exact match, 0 for ValueError
IndexExact(device_row) ==
    LET hits == {i \in 1..Len(device_row) : device_row[i] = <<"Device category">>}
    IN  IF hits = {} THEN 0 ELSE CHOOSE i \in hits : \A j \in hits : i <= j

\* next(i for i, v in enumerate(device_row) if v.strip().lower() ==
\* "device category"): first match, 0 for StopIteration
IndexFallback(device_row) ==
    LET hits == {i \in 1..Len(device_row) :
                    Lower(Strip(device_row[i])) = <<"device category">>}
    IN  IF hits = {} THEN 0 ELSE CHOOSE i \in hits : \A j \in hits : i <= j

\* try: idx = index(...)  except ValueError: idx = next(...)
LocatePivot(device_row) ==
    IF IndexExact(device_row) # 0 THEN IndexExact(device_row)
    ELSE IndexFallback(device_row)

\* [c.strip() for c in device_row[idx + 1:]]
DeviceLabels(device_row, idx) ==
    [k \in 1..(Len(device_row) - idx) |-> Strip(device_row[idx + k])]

\* f"Active users ({lab})"
ActiveUsersCell(lab) == <<"Active users", SPACE, "(">> \o lab \o <<")">>

\* the column's own name kept in front of the label
RECURSIVE MergeLoop_m(_, _, _)
MergeLoop_m(header_cells, revLabels, i) ==
    IF i > Len(revLabels) THEN [ok |-> TRUE, cells |-> header_cells]
    ELSE IF i > Len(header_cells) THEN [ok |-> FALSE, cells |-> header_cells]
    ELSE MergeLoop_m([header_cells EXCEPT ![Len(header_cells) + 1 - i] =
                          @ \o <<SPACE, "(">> \o revLabels[i] \o <<")">>],
                     revLabels, i + 1)

\* the labels that find no cell left are dropped and the loop ends normally
RECURSIVE MergeLoop_drop(_, _, _)
MergeLoop_drop(header_cells, revLabels, i) ==
    IF i > Len(revLabels) \/ i > Len(header_cells)
    THEN [ok |-> TRUE, cells |-> header_cells]
    ELSE MergeLoop_drop([header_cells EXCEPT ![Len(header_cells) + 1 - i] =
                             ActiveUsersCell(revLabels[i])],
                        revLabels, i + 1)

\* for i, lab in enumerate(reversed(device_labels), start=1):
\*     header_cells[-i] = f"Active users ({lab})"
\* run from step i on; header_cells[-i] raises IndexError once i > len
RECURSIVE MergeLoop(_, _, _)
MergeLoop(header_cells, revLabels, i) ==
    IF i > Len(revLabels) THEN [ok |-> TRUE, cells |-> header_cells]
    ELSE IF i > Len(header_cells) THEN [ok |-> FALSE, cells |-> header_cells]
    ELSE MergeLoop([header_cells EXCEPT ![Len(header_cells) + 1 - i] =
                        ActiveUsersCell(revLabels[i])],
                   revLabels, i + 1)

\* the labels taken in their own order, not reversed
MergeHeader_m(header_row, device_labels) ==
    MergeLoop(header_row, device_labels, 1)

MergeHeader(header_row, device_labels) ==
    MergeLoop(header_row, Reversed(device_labels), 1)

\* only a totals line that closes the file is dropped
DataLines_m(rows) ==
    IF Len(rows) >= 3 /\ StartsWith(rows[Len(rows)], COMMA)
    THEN SubSeq(rows, 3, Len(rows) - 1)
    ELSE SubSeq(rows, 3, Len(rows))

\* [ln for ln in rows[2:] if not ln.startswith(",")]
DataLines(rows) ==
    SelectSeq(SubSeq(rows, 3, Len(rows)), LAMBDA ln : ~StartsWith(ln, COMMA))

\* ",".join(header_cells) + "\n" + "\n".join(data_lines)
CsvText(header_cells, data_lines) ==
    Join(header_cells, COMMA) \o <<NL>> \o Join(data_lines, NL)

\* a line pd.read_csv skips (skip_blank_lines)
IsBlank(ln) == Strip(ln) = <<>>

\* pd.read_csv(StringIO(csv_text)): blank lines are skipped, the first line
\* left is the header, the others are the rows; no line left is an error
ReadCsv(csv_text) ==
    LET kept == SelectSeq(TextLines(csv_text), LAMBDA ln : ~IsBlank(ln))
    IN  IF kept = <<>> THEN [ok |-> FALSE, columns |-> <<>>, rows |-> <<>>]
        ELSE [ok |-> TRUE, columns |-> CsvReader(Head(kept)), rows |-> Tail(kept)]

\* the check made against 2
TooFewLines_m(rows) == Len(rows) < 2

\* if len(rows) < 3: raise SystemExit(...)
TooFewLines(rows) == Len(rows) < 3

MalformedMessage == "CSV does not look like a GA4 Explore export with device header."

NoParse ==
    [outcome |-> "none", message |-> "", rows |-> <<>>, device_row |-> <<>>,
     header_row |-> <<>>, idx |-> 0, device_labels |-> <<>>, header_cells |-> <<>>,
     data_lines |-> <<>>, csv_text |-> <<>>, columns |-> <<>>, table_rows |-> <<>>]

parse_device_header_csv(lines) ==
    LET rows       == DropLeadingBlanks(_read_text_lines(lines))
        device_row == CsvReader(rows[1])
        header_row == CsvReader(rows[2])
        idx        == LocatePivot(device_row)
        labels     == DeviceLabels(device_row, idx)
        merged     == MergeHeader(header_row, labels)
        data_lines == DataLines(rows)
        csv_text   == CsvText(merged.cells, data_lines)
        df         == ReadCsv(csv_text)
    IN  IF TooFewLines(rows) THEN
            [NoParse EXCEPT !.outcome = "SystemExit", !.message = MalformedMessage,
                            !.rows = rows]
        ELSE IF idx = 0 THEN
            [NoParse EXCEPT !.outcome = "StopIteration", !.rows = rows,
                            !.device_row = device_row, !.header_row = header_row]
        ELSE IF ~merged.ok THEN
            [NoParse EXCEPT !.outcome = "IndexError", !.rows = rows,
                            !.device_row = device_row, !.header_row = header_row,
                            !.idx = idx, !.device_labels = labels]
        ELSE
            [outcome |-> IF df.ok THEN "ok" ELSE "EmptyDataError", message |-> "",
             rows |-> rows, device_row |-> device_row, header_row |-> header_row,
             idx |-> idx, device_labels |-> labels, header_cells |-> merged.cells,
             data_lines |-> data_lines, csv_text |-> csv_text,
             columns |-> df.columns, table_rows |-> df.rows]


-----------------------------------------------------------------------------
(* load_and_clean                                                          *)

MissingMessage == "Could not find CSV at: data/raw/ga4_export.csv"

NoError == [kind |-> "none", message |-> ""]

\* the frame built from raw: pd.DataFrame({...}), in the order of the dict
DfColumns ==
    <<"date", "landing_page", "country", "event_name", "channel_group",
      "active_users_mobile", "active_users_desktop", "active_users_tablet",
      "active_users_total">>

\* key = ["date", "landing_page", "channel_group", "country"]
DedupKey == <<"date", "landing_page", "channel_group", "country">>

\* the named aggregations of .agg(...): output column and source column
DedupAggs ==
    << <<"active_users_total", "active_users_total">>,
       <<"active_users_mobile", "active_users_mobile">>,
       <<"active_users_desktop", "active_users_desktop">>,
       <<"active_users_tablet", "active_users_tablet">> >>

Range(seq) == {seq[i] : i \in 1..Len(seq)}

\* duplicates dropped on the key, every column of the frame kept
GroupByAggColumns_m(columns, key, aggs) == columns

\* df.groupby(key, dropna=False).agg(...).reset_index(): the key columns,
\* then one column per named aggregation; nothing else of df is kept
GroupByAggColumns(columns, key, aggs) ==
    SelectSeq(key, LAMBDA c : c \in Range(columns))
        \o [i \in 1..Len(aggs) |-> aggs[i][1]]

\* raw["Date"], raw["Landing page"]: KeyError when the column is missing
RequiredColumns == {<<"Date">>, <<"Landing page">>}

\* raw = parse_device_header_csv(path) and what follows it in load_and_clean.
\* A header without the two columns ends in KeyError (for some of these
\* files pd.read_csv raises first: an uncaught exception either way).
LoadExisting(lines) ==
    LET raw == parse_device_header_csv(lines)
    IN  IF raw.outcome # "ok" THEN
            [error |-> [kind |-> raw.outcome, message |-> raw.message],
             parsed |-> raw, columns |-> <<>>]
        ELSE IF ~(RequiredColumns \subseteq Range(raw.columns)) THEN
            [error |-> [kind |-> "KeyError", message |-> ""],
             parsed |-> raw, columns |-> <<>>]
        ELSE
            [error |-> NoError, parsed |-> raw,
             columns |-> GroupByAggColumns(DfColumns, DedupKey, DedupAggs)]

\* a missing file reported but not fatal: an empty table is returned
load_and_clean_m(exists, lines) ==
    IF ~exists THEN
        [error |-> NoError, parsed |-> NoParse,
         columns |-> GroupByAggColumns(DfColumns, DedupKey, DedupAggs)]
    ELSE LoadExisting(lines)

\* if not path.exists(): raise SystemExit(...)
load_and_clean(exists, lines) ==
    IF ~exists THEN
        [error |-> [kind |-> "SystemExit", message |-> MissingMessage],
         parsed |-> NoParse, columns |-> <<>>]
    ELSE LoadExisting(lines)

-----------------------------------------------------------------------------
(* _parse_dates_robust                                                     *)
(* A date string is a sequence of one-character tokens.  pd.to_datetime is *)
(* modelled on tz-naive values inside the range of pandas' Timestamp: with *)
(* format="%Y%m%d" it is strptime (it raises on a string that is no        *)
(* calendar date); with errors="coerce" and no format it reads an ISO      *)
(* YYYY-MM-DD date, and gives NaT for the other strings of the model.      *)

DigitChars == <<"0", "1", "2", "3", "4", "5", "6", "7", "8", "9">>

IsDigitChar(c) == \E i \in 1..10 : DigitChars[i] = c

DigitVal(c) == (CHOOSE i \in 1..10 : DigitChars[i] = c) - 1

\* str.isdigit(): not empty and every character a digit
IsDigit(v) == v # <<>> /\ \A i \in 1..Len(v) : IsDigitChar(v[i])

RECURSIVE Num(_)
Num(v) == IF v = <<>> THEN 0 ELSE 10 * Num(SubSeq(v, 1, Len(v) - 1)) + DigitVal(v[Len(v)])

IsLeap(y) == (y % 4 = 0 /\ y % 100 # 0) \/ y % 400 = 0

DaysInMonth(y, m) ==
    IF m = 2 THEN (IF IsLeap(y) THEN 29 ELSE 28)
    ELSE IF m \in {4, 6, 9, 11} THEN 30 ELSE 31

ValidDate(y, m, d) == y >= 1 /\ m \in 1..12 /\ d >= 1 /\ d <= DaysInMonth(y, m)

\* pd.NaT
NaT == [y |-> 0, m |-> 0, d |-> 0]

\* pd.to_datetime(v, format="%Y%m%d") on eight digits: the date, or it raises
ToDatetimeFormat(v) ==
    LET y == Num(SubSeq(v, 1, 4))
        m == Num(SubSeq(v, 5, 6))
        d == Num(SubSeq(v, 7, 8))
    IN  IF ValidDate(y, m, d) THEN [raises |-> FALSE, value |-> [y |-> y, m |-> m, d |-> d]]
        ELSE [raises |-> TRUE, value |-> NaT]

IsIsoShape(v) ==
    /\ Len(v) = 10
    /\ v[5] = "-" /\ v[8] = "-"
    /\ \A i \in {1, 2, 3, 4, 6, 7, 9, 10} : IsDigitChar(v[i])

\* pd.to_datetime(v, errors="coerce"): never raises
ToDatetimeCoerce(v) ==
    IF IsIsoShape(v)
    THEN LET y == Num(SubSeq(v, 1, 4))
             m == Num(SubSeq(v, 6, 7))
             d == Num(SubSeq(v, 9, 10))
         IN  IF ValidDate(y, m, d) THEN [y |-> y, m |-> m, d |-> d] ELSE NaT
    ELSE NaT

\* the call made without try/except and without errors="coerce"
EightDigits_m(variant, v) == ToDatetimeFormat(v)

\* the YYYYMMDD branch: analyse.py wraps the call in try/except Exception,
\* analyse2.py passes errors="coerce"
EightDigits(variant, v) ==
    LET r == ToDatetimeFormat(v)
    IN  IF variant = "analyse"
        THEN (IF r.raises THEN [raises |-> FALSE, value |-> NaT]
              ELSE [raises |-> FALSE, value |-> r.value])
        ELSE [raises |-> FALSE, value |-> IF r.raises THEN NaT ELSE r.value]

\* one turn of the loop: for v in s.astype(str)
ParseOne(variant, v0) ==
    LET v == Strip(v0)
    IN  IF v = <<>> THEN [raises |-> FALSE, value |-> NaT]
        ELSE IF IsDigit(v) /\ Len(v) = 8 THEN EightDigits(variant, v)
        ELSE [raises |-> FALSE, value |-> ToDatetimeCoerce(v)]

\* the loop appends one value per entry and stops at the first exception
RECURSIVE ParseLoop(_, _, _)
ParseLoop(variant, s, out) ==
    IF s = <<>> THEN [state |-> "returned", raised |-> FALSE, out |-> out]
    ELSE LET r == ParseOne(variant, Head(s))
         IN  IF r.raises THEN [state |-> "returned", raised |-> TRUE, out |-> <<>>]
             ELSE ParseLoop(variant, Tail(s), Append(out, r.value))

\* return pd.to_datetime(out): the Timestamps and NaT of out, as they are
_parse_dates_robust(variant, s) == ParseLoop(variant, s, <<>>)

NoDates == [state |-> "pending", raised |-> FALSE, out |-> <<>>]

\* the longest series, in entries
MaxSeries == 2

DateValid    == <<"2", "0", "2", "5", "0", "7", "2", "1">>
DateLeapDay  == <<"2", "0", "2", "4", "0", "2", "2", "9">>
DateNoLeap   == <<"2", "0", "2", "3", "0", "2", "2", "9">>
DateMonth13  == <<"2", "0", "2", "5", "1", "3", "2", "1">>
DateDay31    == <<"2", "0", "2", "5", "0", "4", "3", "1">>
DatePadded   == <<SPACE, "2", "0", "2", "5", "1", "2", "3", "1", SPACE>>
DateEmpty    == <<>>
DateBlank    == <<SPACE, SPACE>>
DateGarbled  == <<"n", "/", "a">>
DateLetter   == <<"2", "0", "2", "5", "0", "7", "2", "x">>
DateIso      == <<"2", "0", "2", "5", "-", "0", "7", "-", "2", "2">>

DatePool ==
    {DateValid, DateLeapDay, DateNoLeap, DateMonth13, DateDay31, DatePadded,
     DateEmpty, DateBlank, DateGarbled, DateLetter, DateIso}

SeriesSet == UNION {[1..n -> DatePool] : n \in 0..MaxSeries}

-----------------------------------------------------------------------------
(* load_and_clean: the rows of the frame and their deduplication           *)
(* A row of raw (the table read by pd.read_csv) is a record of cells: the  *)
(* date and the four metric cells are sequences of one-character tokens,   *)
(* the landing page is a token sequence, the other cells are strings.  An  *)
(* empty cell of a string column is NaNCell; a metric column that raw does *)
(* not have is a column of empty cells.                                    *)

\* NaN in a numeric column (the counts of the model are never negative)
NaN == -1

\* NaN in a column of strings
NaNCell == "NaN"

\* pd.to_numeric(cell, errors="coerce"): the number, NaN for anything else
ToNumericCoerce(cell) == IF IsDigit(cell) THEN Num(cell) ELSE NaN

\* _safe_series: pd.to_numeric(..., errors="coerce").fillna(0)
_safe_series(cell) ==
    LET v == ToNumericCoerce(cell) IN IF v = NaN THEN 0 ELSE v

\* the metric column as each script builds it
MetricColumn(variant, cell) ==
    IF variant = "analyse" THEN ToNumericCoerce(cell) ELSE _safe_series(cell)

\* df = pd.DataFrame({...}): one row of df per row of raw
BuildFrame(variant, raw) ==
    LET dates == _parse_dates_robust(variant, [i \in 1..Len(raw) |-> raw[i].Date]).out
    IN  [i \in 1..Len(raw) |->
            [date                 |-> dates[i],
             landing_page         |-> Strip(raw[i].LandingPage),
             country              |-> raw[i].Country,
             event_name           |-> raw[i].EventName,
             channel_group        |-> raw[i].ChannelGroup,
             active_users_mobile  |-> MetricColumn(variant, raw[i].Mobile),
             active_users_desktop |-> MetricColumn(variant, raw[i].Desktop),
             active_users_tablet  |-> MetricColumn(variant, raw[i].Tablet),
             active_users_total   |-> MetricColumn(variant, raw[i].Totals)]]

\* the values of a row on key = ["date", "landing_page", "channel_group", "country"]
KeyOf(row) == <<row.date, row.landing_page, row.channel_group, row.country>>

\* a key with a null in it
HasNull(k) == k[1] = NaT \/ k[3] = NaNCell \/ k[4] = NaNCell

\* the distinct keys of the rows, each at its first appearance
RECURSIVE DistinctKeys(_, _)
DistinctKeys(df, seen) ==
    IF df = <<>> THEN seen
    ELSE IF \E j \in 1..Len(seen) : seen[j] = KeyOf(Head(df))
         THEN DistinctKeys(Tail(df), seen)
         ELSE DistinctKeys(Tail(df), Append(seen, KeyOf(Head(df))))

\* groupby(key) with the default dropna=True: a key with a null forms no group
GroupKeys_dropna(df) ==
    SelectSeq(DistinctKeys(df, <<>>), LAMBDA k : ~HasNull(k))

\* df.groupby(key, dropna=False): one group per distinct key, nulls included.
\* pandas orders the groups by key; the model keeps them in order of first
\* appearance, the order of the rows being used by nothing that is modelled.
GroupKeys(df) == DistinctKeys(df, <<>>)

\* "max" of a group's column: NaN is skipped, a group of NaN only gives NaN
AggMax(values) ==
    LET nums == {v \in values : v # NaN}
    IN  IF nums = {} THEN NaN ELSE CHOOSE m \in nums : \A n \in nums : n <= m

\* the values of a column of df over the rows of one group
GroupValues(df, k, col) == {df[i][col] : i \in {j \in 1..Len(df) : KeyOf(df[j]) = k}}

\* df.groupby(key, dropna=False).agg(...=(..., "max")).reset_index()
GroupByAgg(df) ==
    LET keys == GroupKeys(df)
    IN  [g \in 1..Len(keys) |->
            [date                 |-> keys[g][1],
             landing_page         |-> keys[g][2],
             channel_group        |-> keys[g][3],
             country              |-> keys[g][4],
             active_users_total   |-> AggMax(GroupValues(df, keys[g], "active_users_total")),
             active_users_mobile  |-> AggMax(GroupValues(df, keys[g], "active_users_mobile")),
             active_users_desktop |-> AggMax(GroupValues(df, keys[g], "active_users_desktop")),
             active_users_tablet  |-> AggMax(GroupValues(df, keys[g], "active_users_tablet"))]]

\* the most rows of raw
MaxRawRows == 3

RawRow(date, page, channel, country, event, mobile, desktop, tablet, totals) ==
    [Date |-> date, LandingPage |-> page, ChannelGroup |-> channel,
     Country |-> country, EventName |-> event, Mobile |-> mobile,
     Desktop |-> desktop, Tablet |-> tablet, Totals |-> totals]

\* 20250721,/a,Organic,SE,page_view,1,1,,2
RawPageView  == RawRow(DateValid, <<"/a">>, "Organic", "SE", "page_view",
                       <<"1">>, <<"1">>, <<>>, <<"2">>)
\* the same key for another event, the page padded: 20250721, /a,Organic,SE,click,2,,,2
RawClick     == RawRow(DateValid, <<SPACE, "/a">>, "Organic", "SE", "click",
                       <<"2">>, <<>>, <<>>, <<"2">>)
\* a date that is no date
RawGarbled   == RawRow(DateGarbled, <<"/a">>, "Organic", "SE", "page_view",
                       <<"1">>, <<"0">>, <<"0">>, <<"1">>)
\* an empty date, the other key cells as in RawGarbled
RawNoDate    == RawRow(DateEmpty, <<"/a">>, "Organic", "SE", "click",
                       <<"0">>, <<"3">>, <<"0">>, <<"3">>)
\* an empty channel group
RawNoChannel == RawRow(DateValid, <<"/a">>, NaNCell, "SE", "page_view",
                       <<"1">>, <<"0">>, <<"0">>, <<"1">>)
\* another landing page
RawOtherPage == RawRow(DateValid, <<"/b">>, "Organic", "SE", "page_view",
                       <<"4">>, <<"0">>, <<"1">>, <<"5">>)
\* an empty country
RawNoCountry == RawRow(DateValid, <<"/a">>, "Organic", NaNCell, "page_view",
                       <<"0">>, <<"2">>, <<"0">>, <<"2">>)
\* metric cells that are no numbers
RawNoMetrics == RawRow(DateLeapDay, <<"/a">>, "Organic", "SE", "page_view",
                       <<>>, <<"x">>, <<>>, <<>>)

RawRowPool ==
    {RawPageView, RawClick, RawGarbled, RawNoDate, RawNoChannel, RawOtherPage,
     RawNoCountry, RawNoMetrics}

RawFrames == UNION {[1..n -> RawRowPool] : n \in 0..MaxRawRows}

NoTable == [state |-> "pending", rows |-> <<>>]

-----------------------------------------------------------------------------
(* summarise: the week-over-week movers                                    *)
(* A row of the cleaned table is a record of its date, its landing page    *)
(* and its active_users_total; the other columns play no part here.  A     *)
(* pandas Series indexed by landing page is a function on a set of pages.  *)
(* A float cell that may be NaN after an alignment or a join is a record.  *)

\* datetime.date.toordinal(): the days are counted so that windows can be
\* taken with pd.Timedelta(days=...)
DaysBeforeYear(y) ==
    365 * (y - 1) + ((y - 1) \div 4) - ((y - 1) \div 100) + ((y - 1) \div 400)

RECURSIVE DaysBeforeMonth(_, _)
DaysBeforeMonth(y, m) ==
    IF m <= 1 THEN 0 ELSE DaysBeforeMonth(y, m - 1) + DaysInMonth(y, m - 1)

Ordinal(t) == DaysBeforeYear(t.y) + DaysBeforeMonth(t.y, t.m) + t.d

\* df["date"].isna().all()
AllNaT(df) == \A i \in 1..Len(df) : df[i].date = NaT

\* df["date"].max().normalize(), as a day number: NaT is skipped
MaxDate(df) ==
    LET days == {Ordinal(df[i].date) : i \in {j \in 1..Len(df) : df[j].date # NaT}}
    IN  CHOOSE m \in days : \A n \in days : n <= m

\* (df["date"] >= lo) & (df["date"] <= hi): False on NaT
Between(t, lo, hi) == t # NaT /\ Ordinal(t) >= lo /\ Ordinal(t) <= hi

\* cur, prev = _wow_windows(df): two boolean masks over the rows
_wow_windows(df) ==
    IF AllNaT(df)
    THEN [cur |-> [i \in 1..Len(df) |-> TRUE], prev |-> [i \in 1..Len(df) |-> FALSE]]
    ELSE LET end        == MaxDate(df)
             cur_start  == end - 6
             prev_start == cur_start - 7
             prev_end   == cur_start - 1
         IN  [cur  |-> [i \in 1..Len(df) |-> Between(df[i].date, cur_start, end)],
              prev |-> [i \in 1..Len(df) |-> Between(df[i].date, prev_start, prev_end)]]

\* the sum of a column over a set of rows: NaN adds nothing
RECURSIVE SumTotals(_, _)
SumTotals(df, rows) ==
    IF rows = {} THEN 0
    ELSE LET i == CHOOSE r \in rows : TRUE
             v == df[i].active_users_total
         IN  (IF v = NaN THEN 0 ELSE v) + SumTotals(df, rows \ {i})

\* df[mask].groupby("landing_page", dropna=False)["active_users_total"].sum()
GroupSum(df, mask) ==
    LET kept == {i \in 1..Len(df) : mask[i]}
    IN  [p \in {df[i].landing_page : i \in kept} |->
            SumTotals(df, {i \in kept : df[i].landing_page = p})]

Missing == [nan |-> TRUE, v |-> 0]

Value(n) == [nan |-> FALSE, v |-> n]

\* a - b: the two Series are aligned on the union of their indexes and a
\* page that only one of them has gets NaN
SeriesSub(a, b) ==
    [p \in DOMAIN a \cup DOMAIN b |->
        IF p \in DOMAIN a /\ p \in DOMAIN b THEN Value(a[p] - b[p]) ELSE Missing]

\* .join(s.rename(...), how="left"): the value of s at the page, NaN if none
JoinLeft(index, s) == [p \in index |-> IF p \in DOMAIN s THEN Value(s[p]) ELSE Missing]

\* .fillna(0)
FillNa0(cell) == IF cell.nan THEN 0 ELSE cell.v

\* the landing pages of the model in index order
PageOrder == <<"/a", "/b", "/c">>

PageRank(p) == CHOOSE i \in 1..Len(PageOrder) : PageOrder[i] = p

\* .sort_values("delta_active_users", ascending=False): the rows by falling
\* delta; rows of equal delta are left in index order
RECURSIVE SortValues(_)
SortValues(rows) ==
    IF rows = {} THEN <<>>
    ELSE LET first == CHOOSE r \in rows : \A q \in rows :
                          \/ q.delta_active_users < r.delta_active_users
                          \/ /\ q.delta_active_users = r.delta_active_users
                             /\ PageRank(r.landing_page) <= PageRank(q.landing_page)
         IN  <<first>> \o SortValues(rows \ {first})

\* movers = (cur_lp - prev_lp).to_frame(...).join(...).join(...).fillna(0)
\*              .sort_values("delta_active_users", ascending=False)
Movers(df) ==
    LET w       == _wow_windows(df)
        cur_lp  == GroupSum(df, w.cur)
        prev_lp == GroupSum(df, w.prev)
        delta   == SeriesSub(cur_lp, prev_lp)
        cur     == JoinLeft(DOMAIN delta, cur_lp)
        prev    == JoinLeft(DOMAIN delta, prev_lp)
    IN  SortValues({[landing_page      |-> p,
                     delta_active_users |-> FillNa0(delta[p]),
                     active_users_cur   |-> FillNa0(cur[p]),
                     active_users_prev  |-> FillNa0(prev[p])] : p \in DOMAIN delta})

\* the most rows of the cleaned table
MaxCleanRows == 3

CleanRow(date, page, total) ==
    [date |-> date, landing_page |-> page, active_users_total |-> total]

\* the latest day of the model, the first and the day before the first of its
\* 7-day window, the first day of the window before, and the day before that
DayEnd       == [y |-> 2025, m |-> 7, d |-> 5]
DayCurStart  == [y |-> 2025, m |-> 6, d |-> 29]
DayPrevEnd   == [y |-> 2025, m |-> 6, d |-> 28]
DayPrevStart == [y |-> 2025, m |-> 6, d |-> 22]
DayBefore    == [y |-> 2025, m |-> 6, d |-> 21]

CleanRowPool ==
    {CleanRow(DayEnd, "/a", 5), CleanRow(DayEnd, "/b", 2), CleanRow(DayEnd, "/c", NaN),
     CleanRow(DayCurStart, "/a", 2), CleanRow(DayPrevEnd, "/a", 2),
     CleanRow(DayPrevEnd, "/b", 5), CleanRow(DayPrevStart, "/a", 3),
     CleanRow(DayBefore, "/b", 2), CleanRow(NaT, "/a", 5)}

CleanTables == UNION {[1..n -> CleanRowPool] : n \in 0..MaxCleanRows}

NoMovers == [state |-> "pending", rows |-> <<>>]

-----------------------------------------------------------------------------
(* The input files of the model                                            *)

\* the longest file, in lines
MaxLines == 4

\* #,x
CommentLine  == <<HASH, COMMA, "x">>
\* a whitespace-only line
BlankLine    == <<SPACE>>
\* Device category,mobile,Totals
PivotLine    == <<"Device category", COMMA, "mobile", COMMA, "Totals">>
\*  DEVICE CATEGORY ,"a,b "     (found by the fallback; one quoted, padded label)
PivotLoose   == <<SPACE, "DEVICE CATEGORY", SPACE, COMMA, QUOTE, "a", COMMA, "b", SPACE, QUOTE>>
\* Device category              (no label follows)
PivotBare    == <<"Device category">>
\* Date,Landing page,Sessions,Active users
HeaderLine   == <<"Date", COMMA, "Landing page", COMMA, "Sessions", COMMA, "Active users">>
\* "#,x"                        (one quoted cell)
QuotedHeader == <<QUOTE, HASH, COMMA, "x", QUOTE>>
\* 20250701,/home,5,8
DataLine     == <<"20250701", COMMA, "/home", COMMA, "5", COMMA, "8">>
\* ,,13,13
TotalsLine   == <<COMMA, COMMA, "13", COMMA, "13">>

LinePool ==
    {CommentLine, BlankLine, PivotLine, PivotLoose, PivotBare, HeaderLine,
     QuotedHeader, DataLine, TotalsLine}

Files == UNION {[1..n -> LinePool] : n \in 0..MaxLines}

Scripts == {"analyse", "analyse2"}

-----------------------------------------------------------------------------
(* The script: if __name__ == "__main__"                                   *)

DatesIdle ==
    /\ series = <<>>
    /\ dateVariant = "analyse"
    /\ dateResult = NoDates

FrameIdle ==
    /\ rawFrame = <<>>
    /\ frameScript = "analyse"
    /\ frame = <<>>
    /\ dedup = NoTable

MoversIdle ==
    /\ cleaned = <<>>
    /\ movers = NoMovers

MainIdle ==
    /\ script = "analyse"
    /\ fileExists = FALSE
    /\ fileLines = <<>>
    /\ pc = "idle"
    /\ parsed = NoParse
    /\ cleanColumns = <<>>
    /\ error = NoError
    /\ exitStatus = -1
    /\ written = {}
    /\ stepsRun = {}

Init ==
    /\ script \in Scripts
    /\ fileExists \in BOOLEAN
    /\ fileLines \in (IF fileExists THEN Files ELSE {<<>>})
    /\ pc = "start"
    /\ parsed = NoParse
    /\ cleanColumns = <<>>
    /\ error = NoError
    /\ exitStatus = -1
    /\ written = {}
    /\ stepsRun = {}
    /\ DatesIdle
    /\ FrameIdle
    /\ MoversIdle

\* df = load_and_clean(RAW); an exception ends the process with status 1
LoadAndClean ==
    /\ pc = "start"
    /\ LET r == load_and_clean(fileExists, fileLines)
       IN  /\ parsed' = r.parsed
           /\ error' = r.error
           /\ cleanColumns' = r.columns
           /\ pc' = IF r.error.kind = "none" THEN "loaded" ELSE "exited"
           /\ exitStatus' = IF r.error.kind = "none" THEN exitStatus ELSE 1
    /\ UNCHANGED <<script, fileExists, fileLines, written, stepsRun, dateVars, frameVars, moversVars>>

\* df.to_csv(CLEAN_CSV, index=False)
WriteCleanCsv ==
    /\ pc = "loaded"
    /\ written' = written \cup {"CLEAN_CSV"}
    /\ stepsRun' = stepsRun \cup {"to_csv"}
    /\ pc' = "saved"
    /\ UNCHANGED <<script, fileExists, fileLines, parsed, cleanColumns, error,
                   exitStatus, dateVars, frameVars, moversVars>>

\* make_charts returns early when the table has no row
TableHasRows == parsed.table_rows # <<>>

\* md = summarise(df): analyse2 also saves the two summary CSVs and, when the
\* table is not empty, the charts
SummaryFiles ==
    IF script = "analyse2"
    THEN {"CHANNELS_CSV", "LANDING_CSV"} \cup (IF TableHasRows THEN {"CHARTS"} ELSE {})
    ELSE {}

Summarise ==
    /\ pc = "saved"
    /\ written' = written \cup SummaryFiles
    /\ stepsRun' = stepsRun \cup {"summarise"}
    /\ pc' = "summarised"
    /\ UNCHANGED <<script, fileExists, fileLines, parsed, cleanColumns, error,
                   exitStatus, dateVars, frameVars, moversVars>>

\* REPORT.write_text(md, encoding="utf-8")
WriteReport ==
    /\ pc = "summarised"
    /\ written' = written \cup {"REPORT"}
    /\ stepsRun' = stepsRun \cup {"write_report"}
    /\ pc' = "reported"
    /\ UNCHANGED <<script, fileExists, fileLines, parsed, cleanColumns, error,
                   exitStatus, dateVars, frameVars, moversVars>>

\* the closing print calls; the script ends with status 0
Finish ==
    /\ pc = "reported"
    /\ pc' = "exited"
    /\ exitStatus' = 0
    /\ UNCHANGED <<script, fileExists, fileLines, parsed, cleanColumns, error,
                   written, stepsRun, dateVars, frameVars, moversVars>>

Next == LoadAndClean \/ WriteCleanCsv \/ Summarise \/ WriteReport \/ Finish

Spec == Init /\ [][Next]_vars


-----------------------------------------------------------------------------
(* _parse_dates_robust applied to a series of strings                      *)

DatesInit ==
    /\ MainIdle
    /\ FrameIdle
    /\ MoversIdle
    /\ series \in SeriesSet
    /\ dateVariant \in Scripts
    /\ dateResult = NoDates

ParseDates ==
    /\ dateResult.state = "pending"
    /\ dateResult' = _parse_dates_robust(dateVariant, series)
    /\ UNCHANGED <<series, dateVariant, mainVars, frameVars, moversVars>>

DatesNext == ParseDates

SpecDates == DatesInit /\ [][DatesNext]_vars


-----------------------------------------------------------------------------
(* load_and_clean applied to the rows of a parsed table                    *)

FrameInit ==
    /\ MainIdle
    /\ DatesIdle
    /\ MoversIdle
    /\ rawFrame \in RawFrames
    /\ frameScript \in Scripts
    /\ frame = <<>>
    /\ dedup = NoTable

\* df = pd.DataFrame({...}); dedup = df.groupby(...).agg(...).reset_index()
CleanFrame ==
    /\ dedup.state = "pending"
    /\ frame' = BuildFrame(frameScript, rawFrame)
    /\ dedup' = [state |-> "returned", rows |-> GroupByAgg(frame')]
    /\ UNCHANGED <<rawFrame, frameScript, mainVars, dateVars, moversVars>>

FrameNext == CleanFrame

SpecFrame == FrameInit /\ [][FrameNext]_vars


-----------------------------------------------------------------------------
(* summarise applied to a cleaned table: the movers                        *)

MoversInit ==
    /\ MainIdle
    /\ DatesIdle
    /\ FrameIdle
    /\ cleaned \in CleanTables
    /\ movers = NoMovers

\* cur_m, prev_m = _wow_windows(df) ... movers = (...)
BuildMovers ==
    /\ movers.state = "pending"
    /\ movers' = [state |-> "returned", rows |-> Movers(cleaned)]
    /\ UNCHANGED <<cleaned, mainVars, dateVars, frameVars>>

MoversNext == BuildMovers

SpecMovers == MoversInit /\ [][MoversNext]_vars


-----------------------------------------------------------------------------
(* Properties                                                              *)

\* load_and_clean has run on a file that exists
Loaded == pc # "start" /\ pc # "idle" /\ fileExists

ParsedOk == Loaded /\ parsed.outcome = "ok"

\* what is left of the file once '#' lines and leading blank lines are gone
Retained == DropLeadingBlanks(_read_text_lines(fileLines))

\* position, in the merged header, of the k-th of its last n cells
LastCell(cells, n, k) == Len(cells) - n + k

\* C1: when the file passes the 3-line check, line 1 holds "Device category"
\* followed by N labels and line 2 has at least N cells, the merge succeeds
\* and for each k in 1..N the k-th of the last N merged cells is
\* "Active users (<k-th label, trimmed>)": labels pair with the last N columns
\* left to right, the last label on the last column.
C1_LabelsPairInOrder ==
    LET line1 == CsvReader(Retained[1])
        line2 == CsvReader(Retained[2])
        p     == LocatePivot(line1)
        N     == Len(line1) - p
        H     == parsed.header_cells
    IN  (Loaded /\ Len(Retained) >= 3 /\ p # 0 /\ N <= Len(line2))
        => /\ parsed.outcome \in {"ok", "EmptyDataError"}
           /\ Len(H) = Len(line2)
           /\ \A k \in 1..N :
                H[LastCell(H, N, k)] = ActiveUsersCell(Strip(line1[p + k]))

C1_Witness ==
    /\ ParsedOk
    /\ Len(parsed.device_labels) = 2
    /\ parsed.device_labels[1] # parsed.device_labels[2]
    /\ Len(parsed.header_cells) > 2
    /\ parsed.header_cells[Len(parsed.header_cells)] = ActiveUsersCell(<<"Totals">>)

\* the lines of the text after its header line (the text ends with the header
\* line's newline when no data line is kept)
BodyLines(csv_text) ==
    LET ls == TextLines(csv_text)
    IN  IF Len(ls) = 2 /\ ls[2] = <<>> THEN <<>> ELSE Tail(ls)

\* C2: no retained line from the third onward that starts with a comma is in
\* the data body of the reconciled text, wherever it stands and however many
\* there are, and the other data lines are all there, in their order.
C2_TotalsLinesExcluded ==
    ParsedOk =>
        LET body == BodyLines(parsed.csv_text)
            data == SubSeq(Retained, 3, Len(Retained))
        IN  /\ \A i \in 1..Len(body) : ~StartsWith(body[i], COMMA)
            /\ body = SelectSeq(data, LAMBDA ln : ~StartsWith(ln, COMMA))

C2_Witness ==
    /\ ParsedOk
    /\ Len(Retained) = 4
    /\ StartsWith(Retained[3], COMMA)
    /\ ~StartsWith(Retained[4], COMMA)
    /\ BodyLines(parsed.csv_text) = <<Retained[4]>>

C4_TooFewLinesIsFatal ==
    (Loaded /\ Len(Retained) < 3)
    => /\ error = [kind |-> "SystemExit", message |-> MalformedMessage]
       /\ pc = "exited"
       /\ exitStatus = 1
       /\ cleanColumns = <<>>
       /\ parsed.columns = <<>>

C4_Witness ==
    /\ Loaded
    /\ Len(Retained) = 2
    /\ Len(fileLines) > 2
    /\ error.message = MalformedMessage

\* line 1 has no cell that is "Device category", exactly or trimmed and
\* lower-cased
NoPivotCell ==
    /\ Len(Retained) >= 3
    /\ LET line1 == CsvReader(Retained[1])
       IN  \A i \in 1..Len(line1) : Lower(Strip(line1[i])) # <<"device category">>

\* C5: when line 1 has no "Device category" cell, the run ends in the same
\* fatal error as the too-few-lines case.
C5_NoPivotIsMalformedError ==
    (Loaded /\ NoPivotCell)
    => error = [kind |-> "SystemExit", message |-> MalformedMessage]

\* C6: the header line of the reconciled text, read back by a CSV reader,
\* gives the merged header cells: as many columns, with the same names.
C6_HeaderRoundTrip ==
    ParsedOk => CsvReader(TextLines(parsed.csv_text)[1]) = parsed.header_cells

\* the input file is missing or its header shape is malformed
BadInput ==
    \/ ~fileExists
    \/ Len(Retained) < 3
    \/ NoPivotCell

\* C7: in a run on a missing or malformed input nothing is written and no
\* step after load_and_clean runs; the process ends with a non-zero status.
C7_NoOutputOnBadInput ==
    (BadInput /\ pc # "idle")
    => /\ written = {}
       /\ stepsRun = {}
       /\ pc \in {"start", "exited"}
       /\ pc = "exited" => exitStatus # 0 /\ error.kind # "none"

C7_Witness ==
    /\ pc = "exited"
    /\ fileExists
    /\ NoPivotCell
    /\ script = "analyse2"
    /\ exitStatus = 1


\* the date an eight-digit string spells
DateOf(v) ==
    [y |-> Num(SubSeq(v, 1, 4)), m |-> Num(SubSeq(v, 5, 6)), d |-> Num(SubSeq(v, 7, 8))]

EightDigitString(v) == Len(v) = 8 /\ \A i \in 1..8 : IsDigitChar(v[i])

\* a string with a character that is neither a digit nor a date separator
Garbled(v) == \E i \in 1..Len(v) : ~IsDigitChar(v[i]) /\ v[i] # "-"

OriginalNameCell(name, lab) == name \o <<SPACE, "(">> \o lab \o <<")">>

\* C9 as stated: each of the last N merged cells is "<name the column carried
\* in line 2> (<pivot label>)".
C9_OriginalMetricNameKept ==
    ParsedOk =>
        LET N == Len(parsed.device_labels)
            H == parsed.header_cells
        IN  \A k \in 1..N :
                H[LastCell(H, N, k)] =
                    OriginalNameCell(parsed.header_row[LastCell(H, N, k)],
                                     parsed.device_labels[k])

\* C9 as amended: each of the last N merged cells is "Active users (<pivot
\* label>)" whatever name the column carried in line 2, so it is "<original
\* name> (<label>)" only where that name was "Active users"; the cells before
\* the last N keep their line-2 names.
C9_ActiveUsersNameWritten ==
    ParsedOk =>
        LET N == Len(parsed.device_labels)
            H == parsed.header_cells
        IN  /\ \A k \in 1..N :
                /\ H[LastCell(H, N, k)] =
                      <<"Active users", SPACE, "(">> \o parsed.device_labels[k] \o <<")">>
                /\ (H[LastCell(H, N, k)] =
                        OriginalNameCell(parsed.header_row[LastCell(H, N, k)],
                                         parsed.device_labels[k]))
                   <=> parsed.header_row[LastCell(H, N, k)] = <<"Active users">>
            /\ \A j \in 1..(Len(H) - N) : H[j] = parsed.header_row[j]

C9_Witness ==
    /\ ParsedOk
    /\ Len(parsed.device_labels) = 2
    /\ parsed.header_row[3] = <<"Sessions">>
    /\ parsed.header_row[4] = <<"Active users">>
    /\ parsed.header_cells[3] = <<"Active users", SPACE, "(", "mobile", ")">>

\* load_and_clean returned a table
Cleaned == Loaded /\ error.kind = "none"

\* C10 as stated: the cleaned table has the columns date, landing_page,
\* country, event_name, channel_group, the three device columns and the total.
C10_EventNameColumnPresent ==
    Cleaned =>
        Range(cleanColumns) =
            {"date", "landing_page", "country", "event_name", "channel_group",
             "active_users_mobile", "active_users_desktop", "active_users_tablet",
             "active_users_total"}

\* C10 as amended: the cleaned table, which is the one written as the clean
\* CSV, has exactly the columns date, landing_page, channel_group, country,
\* the three device columns and the total; event_name is not among them.
C10_EventNameColumnDropped ==
    Cleaned =>
        /\ Range(cleanColumns) =
              {"date", "landing_page", "country", "channel_group",
               "active_users_mobile", "active_users_desktop", "active_users_tablet",
               "active_users_total"}
        /\ Len(cleanColumns) = 8
        /\ "event_name" \notin Range(cleanColumns)

C10_Witness ==
    /\ Cleaned
    /\ pc = "saved"
    /\ "CLEAN_CSV" \in written
    /\ Len(cleanColumns) > 0

\* C13: when the file passes the 3-line check and line 1 holds "Device
\* category" followed by N labels, then with N greater than the number of
\* cells of line 2 the run ends in an uncaught error (IndexError, status 1):
\* no merged header, no table and no output exist, so nothing was wrapped
\* around and no label was dropped silently; and with N at most the number of
\* cells of line 2 the merged header has exactly as many cells as line 2.
C13_SurplusLabelsAreAnError ==
    LET line1 == CsvReader(Retained[1])
        line2 == CsvReader(Retained[2])
        p     == LocatePivot(line1)
        N     == Len(line1) - p
    IN  (Loaded /\ Len(Retained) >= 3 /\ p # 0)
        => /\ (N > Len(line2))
                => /\ error.kind = "IndexError"
                   /\ pc = "exited"
                   /\ exitStatus = 1
                   /\ parsed.header_cells = <<>>
                   /\ parsed.csv_text = <<>>
                   /\ parsed.columns = <<>>
                   /\ cleanColumns = <<>>
                   /\ written = {}
           /\ (N <= Len(line2))
                => /\ parsed.outcome \in {"ok", "EmptyDataError"}
                   /\ Len(parsed.header_cells) = Len(line2)

C13_Witness ==
    /\ Loaded
    /\ error.kind = "IndexError"
    /\ Len(parsed.header_row) >= 1
    /\ Len(parsed.device_labels) = Len(parsed.header_row) + 1
    /\ pc = "exited"

\* the device and total columns of the cleaned table
MetricColumns ==
    {"active_users_total", "active_users_mobile", "active_users_desktop",
     "active_users_tablet"}

\* the rows of the frame that carry the key k
Sharing(k) == {i \in 1..Len(frame) : KeyOf(frame[i]) = k}

\* C11: once load_and_clean has returned, every key (date, landing_page,
\* channel_group, country) of a row of the frame, a null date or an empty cell
\* included, is the key of exactly one row of the table, and the table has no
\* other key; and each active-user column of a row of the table is NaN when
\* every row of the frame sharing the key has NaN there, and otherwise is a
\* value of one of those rows that none of them exceeds: their maximum, never
\* their sum.
C11_OneRowPerKeyWithMax ==
    dedup.state = "returned" =>
        LET out == dedup.rows
        IN  /\ \A i \in 1..Len(frame) :
                  Cardinality({j \in 1..Len(out) : KeyOf(out[j]) = KeyOf(frame[i])}) = 1
            /\ \A j \in 1..Len(out) : Sharing(KeyOf(out[j])) # {}
            /\ \A j \in 1..Len(out) : \A c \in MetricColumns :
                  LET group == {frame[i][c] : i \in Sharing(KeyOf(out[j]))}
                  IN  IF group = {NaN} THEN out[j][c] = NaN
                      ELSE /\ out[j][c] # NaN
                           /\ out[j][c] \in group
                           /\ \A v \in group : v <= out[j][c]

C11_Witness ==
    /\ dedup.state = "returned"
    /\ Len(frame) = 3
    /\ Len(dedup.rows) = 2
    /\ \E i, j \in 1..3 :
          /\ i # j
          /\ KeyOf(frame[i]) = KeyOf(frame[j])
          /\ frame[i].date = NaT
          /\ frame[i].event_name # frame[j].event_name
          /\ frame[i].active_users_total = 1
          /\ frame[j].active_users_total = 3
          /\ \E r \in 1..2 :
                /\ KeyOf(dedup.rows[r]) = KeyOf(frame[i])
                /\ dedup.rows[r].active_users_total = 3

\* the latest date of the cleaned table, as a day number
LatestDay == MaxDate(cleaned)

\* the total of a landing page over the rows dated from day lo to day hi
WindowTotal(p, lo, hi) ==
    SumTotals(cleaned, {i \in 1..Len(cleaned) :
                           /\ cleaned[i].landing_page = p
                           /\ Between(cleaned[i].date, lo, hi)})

\* C12: in the movers table of a cleaned table that has a date, every row's
\* active_users_cur is its page's total over the 7 days ending at the latest
\* date, its active_users_prev the total over the 7 days before those (0 for
\* a window where the page has no row), its delta_active_users equals
\* active_users_cur - active_users_prev, also for a page present in only one
\* of the two windows, and the rows stand in order of falling delta.
C12_DeltaIsCurMinusPrev ==
    (movers.state = "returned" /\ ~AllNaT(cleaned)) =>
        LET rows == movers.rows
        IN  /\ \A r \in 1..Len(rows) :
                  /\ rows[r].active_users_cur =
                        WindowTotal(rows[r].landing_page, LatestDay - 6, LatestDay)
                  /\ rows[r].active_users_prev =
                        WindowTotal(rows[r].landing_page, LatestDay - 13, LatestDay - 7)
                  /\ rows[r].delta_active_users =
                        rows[r].active_users_cur - rows[r].active_users_prev
            /\ \A r \in 1..(Len(rows) - 1) :
                  rows[r].delta_active_users >= rows[r + 1].delta_active_users

====
